---- MODULE Spec2Model ----
\* Model of special_angles.py and special_angles_numpy.py: the module-level
\* pipeline (cube diagonal, circumscribed sphere radius and volume, the
\* "sin(pi/3)" ratio), the visualization step, the two additional examples and
\* the unittest suite.  Python floats are IEEE-754 binary64; they are modelled
\* bit-exactly as sign / 53-bit mantissa / exponent, the mantissa being an
\* arbitrary-precision natural kept as a little-endian sequence of base-2^15
\* limbs (TLC integers are 32 bits wide).
EXTENDS Integers, Sequences, FiniteSets

\* ---------------------------------------------------------------------------
\* Arbitrary-precision naturals (little-endian limb sequences, <<>> is zero)
\* ---------------------------------------------------------------------------
BASE == 32768
LIMBBITS == 15

RECURSIVE Pow2(_)
Pow2(k) == IF k = 0 THEN 1 ELSE 2 * Pow2(k - 1)

RECURSIVE BNorm(_)
BNorm(a) == IF a = <<>> THEN <<>>
            ELSE IF a[Len(a)] = 0 THEN BNorm(SubSeq(a, 1, Len(a) - 1))
            ELSE a

RECURSIVE BFromInt(_)
BFromInt(n) == IF n = 0 THEN <<>> ELSE <<n % BASE>> \o BFromInt(n \div BASE)

RECURSIVE BToInt(_)
BToInt(a) == IF a = <<>> THEN 0 ELSE a[1] + BASE * BToInt(Tail(a))

RECURSIVE BAddC(_, _, _)
BAddC(a, b, c) ==
    IF a = <<>> /\ b = <<>> THEN (IF c = 0 THEN <<>> ELSE <<c>>)
    ELSE LET x == IF a = <<>> THEN 0 ELSE a[1]
             y == IF b = <<>> THEN 0 ELSE b[1]
             s == x + y + c
             ta == IF a = <<>> THEN <<>> ELSE Tail(a)
             tb == IF b = <<>> THEN <<>> ELSE Tail(b)
         IN <<s % BASE>> \o BAddC(ta, tb, s \div BASE)

BAdd(a, b) == BAddC(a, b, 0)

\* a - b - c for a >= b + c
RECURSIVE BSubC(_, _, _)
BSubC(a, b, c) ==
    IF a = <<>> THEN <<>>
    ELSE LET y == IF b = <<>> THEN 0 ELSE b[1]
             d == a[1] - y - c
             tb == IF b = <<>> THEN <<>> ELSE Tail(b)
         IN IF d < 0 THEN <<d + BASE>> \o BSubC(Tail(a), tb, 1)
            ELSE <<d>> \o BSubC(Tail(a), tb, 0)

BSub(a, b) == BNorm(BSubC(a, b, 0))

\* -1, 0, 1 as a < b, a = b, a > b (both normalised)
RECURSIVE BCmpFrom(_, _, _)
BCmpFrom(a, b, i) ==
    IF i = 0 THEN 0
    ELSE IF a[i] < b[i] THEN -1
    ELSE IF a[i] > b[i] THEN 1
    ELSE BCmpFrom(a, b, i - 1)

BCmp(a, b) == IF Len(a) < Len(b) THEN -1
              ELSE IF Len(a) > Len(b) THEN 1
              ELSE BCmpFrom(a, b, Len(a))

RECURSIVE BMulSmallC(_, _, _)
BMulSmallC(a, s, c) ==
    IF a = <<>> THEN (IF c = 0 THEN <<>> ELSE <<c>>)
    ELSE LET p == a[1] * s + c
         IN <<p % BASE>> \o BMulSmallC(Tail(a), s, p \div BASE)

BMulSmall(a, s) == IF s = 0 THEN <<>> ELSE BMulSmallC(a, s, 0)

BShiftLimbs(a) == IF a = <<>> THEN <<>> ELSE <<0>> \o a

RECURSIVE BMul(_, _)
BMul(a, b) ==
    IF a = <<>> \/ b = <<>> THEN <<>>
    ELSE BAdd(BShiftLimbs(BMul(a, Tail(b))), BMulSmall(a, b[1]))

\* quotient of a by a small s, most significant limb first
RECURSIVE BDivSmallFrom(_, _, _, _)
BDivSmallFrom(a, s, i, rem) ==
    IF i = 0 THEN <<>>
    ELSE LET cur == rem * BASE + a[i]
         IN BDivSmallFrom(a, s, i - 1, cur % s) \o <<cur \div s>>

BDivSmall(a, s) == BNorm(BDivSmallFrom(a, s, Len(a), 0))

RECURSIVE BZeros(_)
BZeros(n) == IF n = 0 THEN <<>> ELSE <<0>> \o BZeros(n - 1)

BShl(a, k) == IF a = <<>> THEN <<>>
              ELSE BZeros(k \div LIMBBITS) \o BMulSmallC(a, Pow2(k % LIMBBITS), 0)

BShr(a, k) == IF Len(a) <= k \div LIMBBITS THEN <<>>
              ELSE BDivSmall(SubSeq(a, (k \div LIMBBITS) + 1, Len(a)), Pow2(k % LIMBBITS))

RECURSIVE IntBitLen(_)
IntBitLen(n) == IF n = 0 THEN 0 ELSE 1 + IntBitLen(n \div 2)

BBitLen(a) == IF a = <<>> THEN 0
              ELSE LIMBBITS * (Len(a) - 1) + IntBitLen(a[Len(a)])

BIsOdd(a) == a # <<>> /\ a[1] % 2 = 1

BOne == <<1>>

\* limb i of a, 0 beyond its length
BLimb(a, i) == IF i >= 1 /\ i <= Len(a) THEN a[i] ELSE 0

\* one quotient digit of long division (Knuth's algorithm D): cur < d * BASE
\* and the top limb of d is at least BASE / 2, so the estimate from the two
\* leading limbs of cur is at most 2 too large
BDigit(cur, d) ==
    LET top == BLimb(cur, Len(d) + 1) * BASE + BLimb(cur, Len(d))
        est == top \div d[Len(d)]
        q0 == IF est > BASE - 1 THEN BASE - 1 ELSE est
        q1 == IF BCmp(BMulSmall(d, q0), cur) > 0 THEN q0 - 1 ELSE q0
    IN IF BCmp(BMulSmall(d, q1), cur) > 0 THEN q1 - 1 ELSE q1

\* long division of the limbs n[1..i] preceded by the running remainder rem
RECURSIVE BDivLimbs(_, _, _, _)
BDivLimbs(n, d, i, rem) ==
    IF i = 0 THEN <<>>
    ELSE LET cur == BNorm(<<n[i]>> \o rem)
             q == BDigit(cur, d)
         IN IF q = 0 THEN BDivLimbs(n, d, i - 1, cur) \o <<0>>
            ELSE BDivLimbs(n, d, i - 1, BSub(cur, BMulSmall(d, q))) \o <<q>>

\* floor(n / d) when the top limb of d is at least BASE / 2: the leading
\* Len(d) - 1 limbs of n are less than d and start as the remainder
BDivNormalised(n, d) ==
    IF Len(n) < Len(d) THEN <<>>
    ELSE BNorm(BDivLimbs(n, d, Len(n) - Len(d) + 1,
                         BNorm(SubSeq(n, Len(n) - Len(d) + 2, Len(n)))))

\* floor(n / d), d # 0: both scaled so that the top limb of d is normalised
BDiv(n, d) ==
    LET sc == Pow2(LIMBBITS - IntBitLen(d[Len(d)]))
    IN BDivNormalised(BMulSmall(n, sc), BMulSmall(d, sc))

\* floor(sqrt(n)) by Newton's iteration from an overestimate s
RECURSIVE BSqrtLoop(_, _)
BSqrtLoop(n, s) ==
    LET t == BDivSmall(BAdd(BDiv(n, s), s), 2)
    IN IF BCmp(t, s) >= 0 THEN s ELSE BSqrtLoop(n, t)

BSqrt(n) == IF n = <<>> THEN <<>> ELSE BSqrtLoop(n, BShl(BOne, (BBitLen(n) + 1) \div 2))

\* ---------------------------------------------------------------------------
\* IEEE-754 binary64 (no subnormal, infinity or NaN arises within the bounds)
\* value = (-1)^sign * m * 2^e, m = <<>> for zero, else m has exactly 53 bits
\* ---------------------------------------------------------------------------
MANT == 53

FZero(sign) == [sign |-> sign, m |-> <<>>, e |-> 0]
FIsZero(a) == a.m = <<>>

\* round-to-nearest, ties-to-even of the exact value n * 2^e
RoundNE(sign, n, e) ==
    LET L == BBitLen(n)
    IN IF n = <<>> THEN FZero(sign)
       ELSE IF L <= MANT THEN [sign |-> sign, m |-> BShl(n, MANT - L), e |-> e - (MANT - L)]
       ELSE LET sh == L - MANT
                q == BShr(n, sh)
                rem == BSub(n, BShl(q, sh))
                c == BCmp(rem, BShl(BOne, sh - 1))
                up == c > 0 \/ (c = 0 /\ BIsOdd(q))
                q2 == IF up THEN BAdd(q, BOne) ELSE q
            IN IF BBitLen(q2) > MANT
               THEN [sign |-> sign, m |-> BShr(q2, 1), e |-> e + sh + 1]
               ELSE [sign |-> sign, m |-> q2, e |-> e + sh]

FFromInt(n) == IF n < 0 THEN RoundNE(1, BFromInt(-n), 0) ELSE RoundNE(0, BFromInt(n), 0)

FNeg(a) == [a EXCEPT !.sign = 1 - a.sign]
FAbs(a) == [a EXCEPT !.sign = 0]

FMul(a, b) == RoundNE((a.sign + b.sign) % 2, BMul(a.m, b.m), a.e + b.e)

FAdd(a, b) ==
    IF FIsZero(a) THEN (IF FIsZero(b) THEN FZero(IF a.sign = 1 /\ b.sign = 1 THEN 1 ELSE 0) ELSE b)
    ELSE IF FIsZero(b) THEN a
    ELSE LET e == IF a.e < b.e THEN a.e ELSE b.e
             x == BShl(a.m, a.e - e)
             y == BShl(b.m, b.e - e)
             c == BCmp(x, y)
         IN IF a.sign = b.sign THEN RoundNE(a.sign, BAdd(x, y), e)
            ELSE IF c = 0 THEN FZero(0)
            ELSE IF c > 0 THEN RoundNE(a.sign, BSub(x, y), e)
            ELSE RoundNE(b.sign, BSub(y, x), e)

FSub(a, b) == FAdd(a, FNeg(b))

\* a / b for b # 0: 57 extra quotient bits and a sticky bit, then one rounding
FDiv(a, b) ==
    IF FIsZero(a) THEN FZero((a.sign + b.sign) % 2)
    ELSE LET n == BShl(a.m, 57)
             q == BDiv(n, b.m)
         IN IF BCmp(BMul(q, b.m), n) = 0
            THEN RoundNE((a.sign + b.sign) % 2, q, a.e - b.e - 57)
            ELSE RoundNE((a.sign + b.sign) % 2, BAdd(BShl(q, 1), BOne), a.e - b.e - 58)

\* sqrt(a) for a >= 0
FSqrt(a) ==
    IF FIsZero(a) THEN a
    ELSE LET k == IF (a.e % 2) = 0 THEN 58 ELSE 57
             n == BShl(a.m, k)
             s == BSqrt(n)
         IN IF BCmp(BMul(s, s), n) = 0
            THEN RoundNE(0, s, (a.e - k) \div 2)
            ELSE RoundNE(0, BAdd(BShl(s, 1), BOne), ((a.e - k) \div 2) - 1)

\* a ** 2 and a ** 3: the exact power, rounded once
FPow2(a) == RoundNE(0, BMul(a.m, a.m), 2 * a.e)
FPow3(a) == RoundNE(a.sign, BMul(BMul(a.m, a.m), a.m), 3 * a.e)

FEq(a, b) == (FIsZero(a) /\ FIsZero(b)) \/ a = b

\* format(a, ".4f") as a signed count of ten-thousandths: round-half-even of
\* the exact binary value
Fmt4(a) ==
    IF FIsZero(a) THEN 0
    ELSE LET n == BMulSmall(a.m, 10000)
             mag == IF a.e >= 0 THEN BToInt(BShl(n, a.e))
                    ELSE LET sh == -a.e
                             q == BShr(n, sh)
                             rem == BSub(n, BShl(q, sh))
                             c == BCmp(rem, BShl(BOne, sh - 1))
                         IN IF c > 0 \/ (c = 0 /\ BIsOdd(q)) THEN BToInt(q) + 1 ELSE BToInt(q)
         IN IF a.sign = 1 THEN -mag ELSE mag

\* ---------------------------------------------------------------------------
\* The math module: math.pi, math.sqrt, math.sin
\* ---------------------------------------------------------------------------
\* math.pi = 0x1.921fb54442d18p+1
math_pi == [sign |-> 0, m |-> <<11544, 10376, 2029, 201>>, e |-> -51]

math_sqrt(a) == FSqrt(a)

\* sin(a) for 0 < a < 2: the Taylor series summed in fixed point with SINFRAC
\* fractional bits, then rounded once to binary64
SINFRAC == 75

\* the sum of the terms x^(2k-1)/(2k-1)! from the k-th on, the odd-numbered
\* ones added to pos and the even-numbered ones to neg: pos - neg
RECURSIVE SinTerms(_, _, _, _, _)
SinTerms(p2, term, k, pos, neg) ==
    IF term = <<>> THEN BSub(pos, neg)
    ELSE IF k % 2 = 1
    THEN SinTerms(p2, BDivSmall(BShr(BMul(p2, term), SINFRAC), (2 * k) * (2 * k + 1)),
                  k + 1, BAdd(pos, term), neg)
    ELSE SinTerms(p2, BDivSmall(BShr(BMul(p2, term), SINFRAC), (2 * k) * (2 * k + 1)),
                  k + 1, pos, BAdd(neg, term))

math_sin(a) ==
    LET p == BShl(a.m, SINFRAC + a.e)
    IN RoundNE(0, SinTerms(BShr(BMul(p, p), SINFRAC), p, 1, <<>>, <<>>), -SINFRAC)

\* ---------------------------------------------------------------------------
\* The pipeline's expressions, as written in the source
\* ---------------------------------------------------------------------------
\* the diagonal with the second term left unsquared
DiagLengthExpr_Unsquared(rr) ==
    math_sqrt(FAdd(FFromInt(rr * rr), FMul(math_sqrt(FFromInt(2)), FFromInt(rr))))

\* math.sqrt(r**2 + (math.sqrt(2)*r)**2), r an int
DiagLengthExpr(rr) ==
    math_sqrt(FAdd(FFromInt(rr * rr), FPow2(FMul(math_sqrt(FFromInt(2)), FFromInt(rr)))))

\* the radius taken as the whole diagonal
SphereRadiusExpr_NotHalved(d) == d

\* diag_length / 2
SphereRadiusExpr(d) == FDiv(d, FFromInt(2))

\* the volume with the radius squared instead of cubed
SphereVolumeExpr_Squared(sr) == FMul(FMul(FDiv(FFromInt(4), FFromInt(3)), math_pi), FPow2(sr))

\* (4/3) * math.pi * sphere_radius**3
SphereVolumeExpr(sr) == FMul(FMul(FDiv(FFromInt(4), FFromInt(3)), math_pi), FPow3(sr))

\* r * math.sin(math.pi / 3)
XExpr(rr) == FMul(FFromInt(rr), math_sin(FDiv(math_pi, FFromInt(3))))

\* the divisor math.pi * x**3
SinPi3Divisor(xx) == FMul(math_pi, FPow3(xx))

\* sphere_volume / (math.pi * x**3), defined when the divisor is not zero
SinPi3Expr(v, xx) == FDiv(v, SinPi3Divisor(xx))

\* self.assertAlmostEqual(first, second, places=4): equal, or
\* round(abs(first - second), 4) == 0
AssertAlmostEqual(first, second) ==
    FEq(first, second) \/ Fmt4(FAbs(FSub(first, second))) = 0

\* ---------------------------------------------------------------------------
\* Python values held by names
\* ---------------------------------------------------------------------------
UnboundInt == [kind |-> "unbound", val |-> 0]
Unbound == [kind |-> "unbound", val |-> FZero(0)]
BoxInt(n) == [kind |-> "int", val |-> n]
Box(f) == [kind |-> "float", val |-> f]
\* the numpy array sphere_radius * np.cos(u) * np.sin(v), known by its scale
NdArray(f) == [kind |-> "ndarray", val |-> f]

\* ---------------------------------------------------------------------------
\* The script as a list of statements
\* ---------------------------------------------------------------------------
Stmt(op, n, name, expr) == [op |-> op, n |-> n, name |-> name, expr |-> expr]
S(op) == Stmt(op, 0, "", "")
print_stmt(name) == Stmt("print", 0, name, "")

\* r = 1 and steps 1 to 4, each value printed as soon as it is computed
MainBlock ==
    << Stmt("set_r", 1, "", ""),
       S("diag"), print_stmt("diag_length"),
       S("radius"), print_stmt("sphere_radius"),
       S("volume"), print_stmt("sphere_volume"),
       S("x"), S("sin"), print_stmt("sin_pi_3") >>

\* the figure and its display; the numpy variant builds the sphere's grid
Visualization(v) ==
    IF v = "numpy" THEN << S("figure"), S("sphere_data"), S("show") >>
    ELSE << S("figure"), S("show") >>

\* an example that computes sin_pi_3 before it recomputes x
ExampleBlock_SinBeforeX(n, rr) ==
    << Stmt("set_r", rr, "", ""),
       S("diag"), S("radius"), S("volume"), S("sin"), S("x"),
       Stmt("print_header", n, "", ""),
       print_stmt("diag_length"), print_stmt("sphere_radius"),
       print_stmt("sphere_volume"), print_stmt("sin_pi_3") >>

\* an example that does not recompute x
ExampleBlock_StaleX(n, rr) ==
    << Stmt("set_r", rr, "", ""),
       S("diag"), S("radius"), S("volume"), S("sin"),
       Stmt("print_header", n, "", ""),
       print_stmt("diag_length"), print_stmt("sphere_radius"),
       print_stmt("sphere_volume"), print_stmt("sin_pi_3") >>

\* "Example n": r = rr, the five assignments, then the header and four prints
ExampleBlock(n, rr) ==
    << Stmt("set_r", rr, "", ""),
       S("diag"), S("radius"), S("volume"), S("x"), S("sin"),
       Stmt("print_header", n, "", ""),
       print_stmt("diag_length"), print_stmt("sphere_radius"),
       print_stmt("sphere_volume"), print_stmt("sin_pi_3") >>

TAssign(name, expr) == Stmt("t_assign", 0, name, expr)
TAssert(first, second) == Stmt("t_assert", 0, first, second)

test_diagonal_length ==
    << Stmt("test_start", 0, "test_diagonal_length", ""),
       Stmt("t_set_r", 1, "", ""),
       TAssign("expected_diag_length", "diag"),
       TAssign("diag_length", "diag"),
       TAssert("diag_length", "expected_diag_length") >>

test_sphere_radius ==
    << Stmt("test_start", 0, "test_sphere_radius", ""),
       Stmt("t_set_r", 1, "", ""),
       TAssign("diag_length", "diag"),
       TAssign("expected_sphere_radius", "radius"),
       TAssign("sphere_radius", "radius"),
       TAssert("sphere_radius", "expected_sphere_radius") >>

test_sphere_volume ==
    << Stmt("test_start", 0, "test_sphere_volume", ""),
       Stmt("t_set_r", 1, "", ""),
       TAssign("diag_length", "diag"),
       TAssign("sphere_radius", "radius"),
       TAssign("expected_sphere_volume", "volume"),
       TAssign("sphere_volume", "volume"),
       TAssert("sphere_volume", "expected_sphere_volume") >>

\* test_sin_pi_3 expecting r * sin(pi/3) instead of the recomputed ratio
test_sin_pi_3_ExpectsX ==
    << Stmt("test_start", 0, "test_sin_pi_3", ""),
       Stmt("t_set_r", 1, "", ""),
       TAssign("diag_length", "diag"),
       TAssign("sphere_radius", "radius"),
       TAssign("sphere_volume", "volume"),
       TAssign("x", "x"),
       TAssign("expected_sin_pi_3", "x"),
       TAssign("sin_pi_3", "sin"),
       TAssert("sin_pi_3", "expected_sin_pi_3") >>

test_sin_pi_3 ==
    << Stmt("test_start", 0, "test_sin_pi_3", ""),
       Stmt("t_set_r", 1, "", ""),
       TAssign("diag_length", "diag"),
       TAssign("sphere_radius", "radius"),
       TAssign("sphere_volume", "volume"),
       TAssign("x", "x"),
       TAssign("expected_sin_pi_3", "sin"),
       TAssign("sin_pi_3", "sin"),
       TAssert("sin_pi_3", "expected_sin_pi_3") >>

\* unittest.main() runs the test methods in alphabetical order
TestSuite == test_diagonal_length \o test_sin_pi_3 \o test_sphere_radius \o test_sphere_volume

TestNames == {"test_diagonal_length", "test_sin_pi_3", "test_sphere_radius", "test_sphere_volume"}

LocalNames == {"diag_length", "expected_diag_length", "sphere_radius", "expected_sphere_radius",
               "sphere_volume", "expected_sphere_volume", "x", "sin_pi_3", "expected_sin_pi_3"}

\* the script with the visualization after the examples
Script_ShowLast(v) ==
    MainBlock \o ExampleBlock(1, 2) \o ExampleBlock(2, 3) \o Visualization(v) \o TestSuite

Script(v) == MainBlock \o Visualization(v) \o ExampleBlock(1, 2) \o ExampleBlock(2, 3) \o TestSuite

Variants == {"plotly", "numpy"}

\* ---------------------------------------------------------------------------
\* Bounds of the model
\* ---------------------------------------------------------------------------
MaxR == 3
NegR == 1
RInputs == (0 - NegR) .. MaxR

\* ---------------------------------------------------------------------------
\* State
\* ---------------------------------------------------------------------------
VARIABLES
    variant,        \* which file runs: special_angles.py or special_angles_numpy.py
    inputs,         \* "source": the r of the source; "script" / "tests": any r of
                    \* RInputs at the module-level / test-method assignments of r
    pc,             \* index in Script(variant) of the next statement
    r, diag_length, sphere_radius, sphere_volume, x, sin_pi_3,   \* module globals
    fig, shown,     \* what the figure was built from, and how often it was shown
    out,            \* standard output, one entry per print
    err,            \* the uncaught exception that ended the run, or "none"
    results,        \* the values of each completed module-level evaluation
    loc_r, loc,     \* the running test method's locals
    cur_test, test_result, checked

vars == <<variant, inputs, pc, r, diag_length, sphere_radius, sphere_volume, x, sin_pi_3,
          fig, shown, out, err, results, loc_r, loc, cur_test, test_result, checked>>

globals == <<r, diag_length, sphere_radius, sphere_volume, x, sin_pi_3>>
viz == <<fig, shown>>
testvars == <<loc_r, loc, cur_test, test_result, checked>>

Prog == Script(variant)
Running == err = "none" /\ pc <= Len(Prog)
At(op) == Running /\ Prog[pc].op = op

NoFig == [side |-> 0, half_diag |-> FZero(0), surface |-> "none"]
NoCheck == [first |-> FZero(0), second |-> FZero(0)]

InitWith(inp) ==
    /\ variant \in Variants
    /\ inputs = inp
    /\ pc = 1
    /\ r = UnboundInt
    /\ diag_length = Unbound /\ sphere_radius = Unbound /\ sphere_volume = Unbound
    /\ x = Unbound /\ sin_pi_3 = Unbound
    /\ fig = NoFig /\ shown = 0
    /\ out = <<>>
    /\ err = "none"
    /\ results = <<>>
    /\ loc_r = UnboundInt
    /\ loc = [n \in LocalNames |-> Unbound]
    /\ cur_test = "none"
    /\ test_result = [t \in TestNames |-> "notrun"]
    /\ checked = NoCheck

Init == InitWith("source")
EvalInit == InitWith("script")
TestInit == InitWith("tests")

\* ---------------------------------------------------------------------------
\* Module-level statements
\* ---------------------------------------------------------------------------
\* r = 1, r = 2, r = 3
SetR ==
    /\ At("set_r")
    /\ \E v \in (IF inputs = "script" THEN RInputs ELSE {Prog[pc].n}) : r' = BoxInt(v)
    /\ pc' = pc + 1
    /\ UNCHANGED <<variant, inputs, diag_length, sphere_radius, sphere_volume, x, sin_pi_3,
                   viz, out, err, results, testvars>>

\* Step 1: diag_length = math.sqrt(r**2 + (math.sqrt(2)*r)**2)
Step1 ==
    /\ At("diag")
    /\ diag_length' = Box(DiagLengthExpr(r.val))
    /\ pc' = pc + 1
    /\ UNCHANGED <<variant, inputs, r, sphere_radius, sphere_volume, x, sin_pi_3,
                   viz, out, err, results, testvars>>

\* Step 2: sphere_radius = diag_length / 2
Step2 ==
    /\ At("radius")
    /\ sphere_radius' = Box(SphereRadiusExpr(diag_length.val))
    /\ pc' = pc + 1
    /\ UNCHANGED <<variant, inputs, r, diag_length, sphere_volume, x, sin_pi_3,
                   viz, out, err, results, testvars>>

\* Step 3: sphere_volume = (4/3) * math.pi * sphere_radius**3
Step3 ==
    /\ At("volume")
    /\ sphere_volume' = Box(SphereVolumeExpr(sphere_radius.val))
    /\ pc' = pc + 1
    /\ UNCHANGED <<variant, inputs, r, diag_length, sphere_radius, x, sin_pi_3,
                   viz, out, err, results, testvars>>

\* Step 4, first statement: x = r * math.sin(math.pi / 3)
StepX ==
    /\ At("x")
    /\ x' = Box(XExpr(r.val))
    /\ pc' = pc + 1
    /\ UNCHANGED <<variant, inputs, r, diag_length, sphere_radius, sphere_volume, sin_pi_3,
                   viz, out, err, results, testvars>>

\* a division that also rejects negative divisors
DivRaises_Negative(divisor) == FIsZero(divisor) \/ divisor.sign = 1

\* float division raises ZeroDivisionError on a zero divisor
DivRaises(divisor) == FIsZero(divisor)

\* Step 4, second statement: sin_pi_3 = sphere_volume / (math.pi * x**3);
\* with x a numpy array the quotient is an array
Step4 ==
    /\ At("sin")
    /\ IF x.kind = "ndarray"
       THEN /\ sin_pi_3' = NdArray(x.val)
            /\ pc' = pc + 1
            /\ UNCHANGED <<err, results>>
       ELSE IF DivRaises(SinPi3Divisor(x.val))
       THEN /\ err' = "ZeroDivisionError"
            /\ UNCHANGED <<sin_pi_3, pc, results>>
       ELSE /\ sin_pi_3' = Box(SinPi3Expr(sphere_volume.val, x.val))
            /\ results' = Append(results,
                   [r |-> r.val, diag_length |-> diag_length.val,
                    sphere_radius |-> sphere_radius.val,
                    sphere_volume |-> sphere_volume.val,
                    sin_pi_3 |-> sin_pi_3'.val])
            /\ pc' = pc + 1
            /\ UNCHANGED err
    /\ UNCHANGED <<variant, inputs, r, diag_length, sphere_radius, sphere_volume, x,
                   viz, out, testvars>>

Labels == [diag_length |-> "Diagonal length of the cube: ",
           sphere_radius |-> "Radius of the sphere: ",
           sphere_volume |-> "Volume of the sphere: ",
           sin_pi_3 |-> "sin(pi/3) = "]

GlobalNamed(name) ==
    CASE name = "diag_length" -> diag_length
      [] name = "sphere_radius" -> sphere_radius
      [] name = "sphere_volume" -> sphere_volume
      [] name = "sin_pi_3" -> sin_pi_3

\* print(f"<label>{value:.4f}"); an array does not take the format .4f
print_value ==
    /\ At("print")
    /\ LET v == GlobalNamed(Prog[pc].name)
       IN IF v.kind = "float"
          THEN /\ out' = Append(out, [label |-> Labels[Prog[pc].name], val |-> Fmt4(v.val),
                                      r |-> r.val])
               /\ pc' = pc + 1
               /\ UNCHANGED err
          ELSE /\ err' = "TypeError"
               /\ UNCHANGED <<out, pc>>
    /\ UNCHANGED <<variant, inputs, globals, viz, results, testvars>>

\* print(f"\nExample n (r = {r}):")
print_header ==
    /\ At("print_header")
    /\ out' = Append(out, [label |-> "Example", val |-> Prog[pc].n, r |-> r.val])
    /\ pc' = pc + 1
    /\ UNCHANGED <<variant, inputs, globals, viz, err, results, testvars>>

\* the cube of side r, the segment to diag_length/2 and, in the plotly variant,
\* the flat surface patch over [0, diag_length/2]
Figure ==
    /\ At("figure")
    /\ fig' = [side |-> r.val, half_diag |-> FDiv(diag_length.val, FFromInt(2)),
               surface |-> IF variant = "plotly" THEN "patch" ELSE "none"]
    /\ pc' = pc + 1
    /\ UNCHANGED <<variant, inputs, globals, shown, out, err, results, testvars>>

\* u, v = np.mgrid[...]; x, y, z = sphere_radius * ...; ax.plot_wireframe(x, y, z)
\* rebinds the module-level name x
SphereData ==
    /\ At("sphere_data")
    /\ x' = NdArray(sphere_radius.val)
    /\ fig' = [fig EXCEPT !.surface = "wireframe"]
    /\ pc' = pc + 1
    /\ UNCHANGED <<variant, inputs, r, diag_length, sphere_radius, sphere_volume, sin_pi_3,
                   shown, out, err, results, testvars>>

\* fig.show() / plt.show()
Show ==
    /\ At("show")
    /\ shown' = shown + 1
    /\ pc' = pc + 1
    /\ UNCHANGED <<variant, inputs, globals, fig, out, err, results, testvars>>

\* ---------------------------------------------------------------------------
\* The test methods
\* ---------------------------------------------------------------------------
\* a test method starts with fresh locals
TestStart ==
    /\ At("test_start")
    /\ cur_test' = Prog[pc].name
    /\ test_result' = [test_result EXCEPT ![Prog[pc].name] = "running"]
    /\ loc_r' = UnboundInt
    /\ loc' = [n \in LocalNames |-> Unbound]
    /\ pc' = pc + 1
    /\ UNCHANGED <<variant, inputs, globals, viz, out, err, results, checked>>

\* r = 1
TestSetR ==
    /\ At("t_set_r")
    /\ \E v \in (IF inputs = "tests" THEN RInputs ELSE {Prog[pc].n}) : loc_r' = BoxInt(v)
    /\ pc' = pc + 1
    /\ UNCHANGED <<variant, inputs, globals, viz, out, err, results, loc, cur_test,
                   test_result, checked>>

\* the right-hand sides of the test methods' assignments, over the locals
TestExpr(e) ==
    CASE e = "diag" -> DiagLengthExpr(loc_r.val)
      [] e = "radius" -> SphereRadiusExpr(loc["diag_length"].val)
      [] e = "volume" -> SphereVolumeExpr(loc["sphere_radius"].val)
      [] e = "x" -> XExpr(loc_r.val)
      [] e = "sin" -> SinPi3Expr(loc["sphere_volume"].val, loc["x"].val)

TestExprRaises(e) == e = "sin" /\ DivRaises(SinPi3Divisor(loc["x"].val))

\* the first statement of the next test method, or the end of the script
RECURSIVE NextTest(_)
NextTest(i) ==
    IF i > Len(Prog) THEN i
    ELSE IF Prog[i].op = "test_start" THEN i
    ELSE NextTest(i + 1)

\* an assignment in a test method; an exception ends the method as an error
TestAssign ==
    /\ At("t_assign")
    /\ IF TestExprRaises(Prog[pc].expr)
       THEN /\ test_result' = [test_result EXCEPT ![cur_test] = "error"]
            /\ pc' = NextTest(pc)
            /\ UNCHANGED loc
       ELSE /\ loc' = [loc EXCEPT ![Prog[pc].name] = Box(TestExpr(Prog[pc].expr))]
            /\ pc' = pc + 1
            /\ UNCHANGED test_result
    /\ UNCHANGED <<variant, inputs, globals, viz, out, err, results, loc_r, cur_test, checked>>

\* self.assertAlmostEqual(<name>, <expected name>, places=4), the last statement
TestAssert ==
    /\ At("t_assert")
    /\ checked' = [first |-> loc[Prog[pc].name].val, second |-> loc[Prog[pc].expr].val]
    /\ test_result' = [test_result EXCEPT ![cur_test] =
                          IF AssertAlmostEqual(loc[Prog[pc].name].val, loc[Prog[pc].expr].val)
                          THEN "pass" ELSE "fail"]
    /\ pc' = pc + 1
    /\ UNCHANGED <<variant, inputs, globals, viz, out, err, results, loc_r, loc, cur_test>>

Next ==
    \/ SetR \/ Step1 \/ Step2 \/ Step3 \/ StepX \/ Step4
    \/ print_value \/ print_header
    \/ Figure \/ SphereData \/ Show
    \/ TestStart \/ TestSetR \/ TestAssign \/ TestAssert

Spec == Init /\ [][Next]_vars
EvalSpec == EvalInit /\ [][Next]_vars
TestSpec == TestInit /\ [][Next]_vars

\* ---------------------------------------------------------------------------
\* Properties
\* ---------------------------------------------------------------------------
\* the statement that has just been executed
PrevOp == IF pc > 1 /\ pc - 1 <= Len(Prog) THEN Prog[pc - 1].op ELSE "none"
Done == err = "none" /\ pc > Len(Prog)

\* exact dyadic rationals m * 2^e, for comparing floats without rounding
Dy(f) == [m |-> f.m, e |-> f.e]
DyInt(n) == [m |-> BFromInt(n), e |-> 0]
DyMul(a, b) == [m |-> BMul(a.m, b.m), e |-> a.e + b.e]
DyCmp(a, b) ==
    LET e == IF a.e < b.e THEN a.e ELSE b.e
    IN BCmp(BShl(a.m, a.e - e), BShl(b.m, b.e - e))
DySq(a) == DyMul(a, a)
DyCube(a) == DyMul(DyMul(a, a), a)

\* relative tolerance 1e-9
TolDen == 10 ^ 9

\* |a - b| <= 1e-9 * b, for a, b >= 0
WithinTol(a, b) ==
    /\ DyCmp(DyMul(DyInt(TolDen - 1), b), DyMul(DyInt(TolDen), a)) <= 0
    /\ DyCmp(DyMul(DyInt(TolDen), a), DyMul(DyInt(TolDen + 1), b)) <= 0

\* the same for a, b >= 0 given by their squares
WithinTolSq(a2, b2) ==
    /\ DyCmp(DyMul(DySq(DyInt(TolDen - 1)), b2), DyMul(DySq(DyInt(TolDen)), a2)) <= 0
    /\ DyCmp(DyMul(DySq(DyInt(TolDen)), a2), DyMul(DySq(DyInt(TolDen + 1)), b2)) <= 0

\* math.sin(math.pi / 3), the value the ratio is said to approximate
SinPiOver3 == math_sin(FDiv(math_pi, FFromInt(3)))

\* C1: for every r > 0 the computed ratio sin_pi_3 approximates sin(pi/3),
\* that is, it prints as 0.8660 to four decimal places.
C1_RatioIsSinPiOver3 ==
    (PrevOp = "sin" /\ r.val > 0 /\ sin_pi_3.kind = "float")
        => (Fmt4(sin_pi_3.val) = 8660 /\ AssertAlmostEqual(sin_pi_3.val, SinPiOver3))

\* C2: with r <= 0 the evaluation ends in InvalidInputError before any of
\* diag_length, sphere_radius, sphere_volume, x or sin_pi_3 is computed.
C2_NonPositiveRIsRejected ==
    (r.kind = "int" /\ r.val <= 0 /\ PrevOp \in {"diag", "radius", "volume", "x", "sin"})
        => err = "InvalidInputError"

\* the values the script is said to print, in ten-thousandths
C3_Stated ==
    [rr \in 1..3 |->
        IF rr = 1 THEN [diag_length |-> 17321, sphere_radius |-> 8660, sphere_volume |-> 27207]
        ELSE IF rr = 2 THEN [diag_length |-> 34641, sphere_radius |-> 17321, sphere_volume |-> 217656]
        ELSE [diag_length |-> 51962, sphere_radius |-> 25981, sphere_volume |-> 734594]]

\* the values it prints: the volume for r = 3 is 73.4589
C3_Printed == [C3_Stated EXCEPT ![3].sphere_volume = 734589]

C3_LinesAgree(table) ==
    \A i \in 1..Len(out) :
        /\ out[i].label = Labels.diag_length => out[i].val = table[out[i].r].diag_length
        /\ out[i].label = Labels.sphere_radius => out[i].val = table[out[i].r].sphere_radius
        /\ out[i].label = Labels.sphere_volume => out[i].val = table[out[i].r].sphere_volume

\* C3 as stated: the printed diagonal, radius and volume are 1.7321, 0.8660,
\* 2.7207 for r = 1; 3.4641, 1.7321, 21.7656 for r = 2; 5.1962, 2.5981, 73.4594
\* for r = 3.
C3_PrintedAsStated == C3_LinesAgree(C3_Stated)

\* C3 amended: the same, with 73.4589 as the volume printed for r = 3.
C3_PrintedValues == C3_LinesAgree(C3_Printed)

C3_Witness ==
    /\ Len(out) = 14
    /\ \E i \in 1..Len(out) : out[i].r = 3 /\ out[i].label = Labels.sphere_volume

\* C4: for every r > 0, diag_length is non-negative and equals r * sqrt(3), the
\* number whose square is 3 * r^2, up to float rounding: within the relative
\* tolerance 1e-9.
C4_DiagonalIsRSqrt3 ==
    (PrevOp = "diag" /\ r.val > 0)
        => /\ diag_length.kind = "float"
           /\ diag_length.val.sign = 0
           /\ WithinTolSq(DySq(Dy(diag_length.val)), DyInt(3 * r.val * r.val))

C4_Witness == PrevOp = "diag" /\ r.val > 1 /\ diag_length.kind = "float"

\* C5: for every r > 0, sphere_radius is exactly half of diag_length, which
\* makes it (sqrt(3)/2) * r, and sphere_volume is (4/3) * pi * sphere_radius^3,
\* which makes it (sqrt(3)/2) * pi * r^3 (both up to float rounding, within the
\* relative tolerance 1e-9; pi is math.pi).
C5_RadiusAndVolume ==
    /\ (PrevOp = "radius" /\ r.val > 0)
          => /\ DyCmp(DyMul(DyInt(2), Dy(sphere_radius.val)), Dy(diag_length.val)) = 0
             /\ sphere_radius.val.sign = 0
             /\ WithinTolSq(DyMul(DyInt(4), DySq(Dy(sphere_radius.val))),
                            DyInt(3 * r.val * r.val))
    /\ (PrevOp = "volume" /\ r.val > 0)
          => /\ sphere_volume.val.sign = 0
             /\ WithinTol(DyMul(DyInt(3), Dy(sphere_volume.val)),
                          DyMul(DyMul(DyInt(4), Dy(math_pi)), DyCube(Dy(sphere_radius.val))))
             /\ WithinTolSq(DyMul(DyInt(4), DySq(Dy(sphere_volume.val))),
                            DyMul(DyMul(DyInt(3), DySq(Dy(math_pi))),
                                  DySq(DyInt(r.val * r.val * r.val))))

C5_Witness == PrevOp = "volume" /\ r.val > 1 /\ sphere_volume.kind = "float"

\* C6: two completed evaluations with the same r yield identical diag_length,
\* sphere_radius, sphere_volume and sin_pi_3, whatever was evaluated between
\* them.
C6_SameRSameResults ==
    \A i, j \in 1..Len(results) : results[i].r = results[j].r => results[i] = results[j]

C6_Witness ==
    /\ Len(results) = 3
    /\ results[1].r = results[3].r
    /\ results[2].r # results[1].r

\* the script's output, as (label, r): four lines for r = 1, then a header and
\* four lines for r = 2 and for r = 3
C7_Order ==
    << <<Labels.diag_length, 1>>, <<Labels.sphere_radius, 1>>,
       <<Labels.sphere_volume, 1>>, <<Labels.sin_pi_3, 1>>,
       <<"Example", 2>>, <<Labels.diag_length, 2>>, <<Labels.sphere_radius, 2>>,
       <<Labels.sphere_volume, 2>>, <<Labels.sin_pi_3, 2>>,
       <<"Example", 3>>, <<Labels.diag_length, 3>>, <<Labels.sphere_radius, 3>>,
       <<Labels.sphere_volume, 3>>, <<Labels.sin_pi_3, 3>> >>

\* C7: the output is always a prefix of: diagonal, radius, volume, identity for
\* r = 1, then the same for r = 2, then for r = 3; the visualization is shown
\* exactly once, after the four lines for r = 1 and before any output for
\* r = 2; the run ends with all the output written.
C7_ScriptOrder ==
    /\ Len(out) <= Len(C7_Order)
    /\ \A i \in 1..Len(out) : <<out[i].label, out[i].r>> = C7_Order[i]
    /\ shown <= 1
    /\ shown = 1 => Len(out) >= 4
    /\ Len(out) > 4 => shown = 1
    /\ fig # NoFig => (fig.side = 1 /\ Len(out) >= 4)
    /\ (Done \/ cur_test # "none") => (Len(out) = Len(C7_Order) /\ shown = 1)

C7_Witness == Done /\ shown = 1 /\ Len(out) = 14

\* the value a line shows, computed from r alone
C8_FromR(label, rr) ==
    IF label = Labels.diag_length THEN Fmt4(DiagLengthExpr(rr))
    ELSE IF label = Labels.sphere_radius THEN Fmt4(SphereRadiusExpr(DiagLengthExpr(rr)))
    ELSE IF label = Labels.sphere_volume
    THEN Fmt4(SphereVolumeExpr(SphereRadiusExpr(DiagLengthExpr(rr))))
    ELSE Fmt4(SinPi3Expr(SphereVolumeExpr(SphereRadiusExpr(DiagLengthExpr(rr))), XExpr(rr)))

\* C8: every value printed for an r is the value computed from that r alone,
\* also after the visualization (which in the numpy variant rebinds x to the
\* sphere's grid): nothing left over from an earlier iteration is read, and no
\* print fails.
C8_IterationsIndependent ==
    /\ err = "none"
    /\ (PrevOp = "print") =>
          out[Len(out)].val = C8_FromR(out[Len(out)].label, out[Len(out)].r)
    /\ (Running /\ Prog[pc].op = "sin") => (x.kind = "float" /\ x.val = XExpr(r.val))

C8_Witness ==
    /\ variant = "numpy" /\ fig.surface = "wireframe"
    /\ PrevOp = "print" /\ out[Len(out)].label = Labels.sin_pi_3 /\ out[Len(out)].r = 2

\* C9: with r = 0 the failure is a ZeroDivisionError at the statement computing
\* sin_pi_3, after diag_length, sphere_radius and sphere_volume were computed
\* (all 0); it is not caught and ends the run; no evaluation with r = 0
\* completes. With r < 0 no step fails and four values are produced.
C9_ZeroDivisionOnlyAtRatio ==
    /\ err # "none" =>
          /\ err = "ZeroDivisionError"
          /\ r.val = 0
          /\ pc <= Len(Prog) /\ Prog[pc].op = "sin"
          /\ diag_length.kind = "float" /\ FIsZero(diag_length.val)
          /\ sphere_radius.kind = "float" /\ FIsZero(sphere_radius.val)
          /\ sphere_volume.kind = "float" /\ FIsZero(sphere_volume.val)
          /\ ~ENABLED Next
    /\ \A i \in 1..Len(results) : results[i].r # 0
    /\ (PrevOp \in {"x", "sin"} /\ r.val = 0) => (pc <= Len(Prog) /\ Prog[pc].op = "sin")
    /\ (PrevOp = "sin" /\ r.val < 0) =>
          /\ err = "none"
          /\ diag_length.kind = "float" /\ sphere_radius.kind = "float"
          /\ sphere_volume.kind = "float" /\ sin_pi_3.kind = "float"
          /\ results[Len(results)].r = r.val

C9_Witness ==
    /\ err = "ZeroDivisionError"
    /\ Len(results) >= 1 /\ results[1].r < 0

\* the running test method has executed its assertion
C10_Asserted == cur_test # "none" /\ test_result[cur_test] \in {"pass", "fail"}

\* C10: every assertion of the four test methods holds for any r for which
\* the expressions evaluate (only test_sin_pi_3 with r = 0 does not evaluate:
\* it ends as an error), the two compared values being identical; and
\* test_sin_pi_3 passes although the ratio it checks is not almost equal to
\* sin(pi/3).
C10_TestsPassRegardless ==
    /\ \A t \in TestNames : test_result[t] # "fail"
    /\ \A t \in TestNames :
          (test_result[t] = "error" /\ cur_test = t) => (t = "test_sin_pi_3" /\ loc_r.val = 0)
    /\ C10_Asserted => (test_result[cur_test] = "pass" /\ checked.first = checked.second)
    /\ (C10_Asserted /\ cur_test = "test_sin_pi_3") =>
          ~AssertAlmostEqual(checked.first, SinPiOver3)

C10_Witness ==
    /\ C10_Asserted /\ cur_test = "test_sin_pi_3"
    /\ test_result["test_sin_pi_3"] = "pass"
    /\ loc_r.val = 2

====
